---- MODULE Spec2Model ----
(***************************************************************************)
(* json-analyzer: inference of a structural type from a JSON value         *)
(* (DataType::from_json_value), unification of two types                   *)
(* (DataType::unify) and emission of declarations (DataType::declare).     *)
(* Source: src/src/main.rs.                                                *)
(***************************************************************************)
EXTENDS Integers, Sequences, FiniteSets, TLC

VARIABLES
    pc,          \* position of the run: "call", "reduce", "declare" or "done"
    t1, t2,      \* operands of the unify call under study
    r12, r21,    \* unify(t1, t2) and unify(t2, t1)
    v, w,        \* a JSON array and an array of the same elements in another order
    typ, typ_w,  \* from_json_value(v) and from_json_value(w)
    family,      \* which elements the array read by from_json_value is made of
    acc,         \* accumulator of the reduce in from_json_value: <<>> or <<type>>
    count,       \* number of array elements consumed by the reduce
    kinds,       \* history: the kinds of the elements consumed
    seen,        \* history: the field names of the elements consumed
    every,       \* history: the field names every consumed element has
    rhs,         \* history: variants of the right-hand operands of the unify calls made
    root,        \* the type handed to declare by main
    stack,       \* call stack of declare: one frame per active call
    ret,         \* value returned by the declare call that finished last
    next_index,  \* Decls::next_index
    decls        \* Decls::decls

vars ==
    <<pc, t1, t2, r12, r21, v, w, typ, typ_w, family, acc, count, kinds, seen, every, rhs,
      root, stack, ret, next_index, decls>>

-----------------------------------------------------------------------------
(* Bounds of the model.                                                    *)

\* largest number of options of a Variant drawn as an input
MaxOpts == 2
\* largest number of distinct field names of the Objects drawn as inputs
MaxFields == 2
\* largest number of elements of a JSON array drawn as an input
MaxLen == 3

-----------------------------------------------------------------------------
(* enum DataType.  A value is a record whose tag names the variant; the    *)
(* payload of Object is a function from field names to types (BTreeMap),   *)
(* of Array a type (Box), of Variant a set of types (BTreeSet).            *)

Null == [tag |-> "Null"]
String == [tag |-> "String"]
IntT == [tag |-> "Int"]
Float == [tag |-> "Float"]
Bool == [tag |-> "Bool"]
Object(members) == [tag |-> "Object", fields |-> members]
Array(elems) == [tag |-> "Array", elem |-> elems]
Variant(options) == [tag |-> "Variant", opts |-> options]

\* field names, in the byte order of Rust's String comparison
FieldNames == <<"bar", "baz", "foo", "qux">>

NameRank(name) == CHOOSE i \in DOMAIN FieldNames : FieldNames[i] = name

\* the keys of a BTreeMap in iteration order
Keys(members) == SelectSeq(FieldNames, LAMBDA name : name \in DOMAIN members)

\* position of a variant in the enum: derive(PartialOrd, Ord) compares it first
TagRank(t) ==
    CASE t.tag = "Null" -> 0
      [] t.tag = "String" -> 1
      [] t.tag = "Int" -> 2
      [] t.tag = "Float" -> 3
      [] t.tag = "Bool" -> 4
      [] t.tag = "Object" -> 5
      [] t.tag = "Array" -> 6
      [] t.tag = "Variant" -> 7

RECURSIVE Cmp(_, _), CmpMembers(_, _, _, _), CmpOptions(_, _), SortedOptions(_)

\* derived Ord of DataType: -1, 0 or 1
Cmp(a, b) ==
    IF TagRank(a) < TagRank(b) THEN -1
    ELSE IF TagRank(a) > TagRank(b) THEN 1
    ELSE IF a.tag = "Object" THEN CmpMembers(a.fields, Keys(a.fields), b.fields, Keys(b.fields))
    ELSE IF a.tag = "Array" THEN Cmp(a.elem, b.elem)
    ELSE IF a.tag = "Variant" THEN CmpOptions(SortedOptions(a.opts), SortedOptions(b.opts))
    ELSE 0

\* Ord of BTreeMap: lexicographic over the (key, value) pairs in key order
CmpMembers(a, ka, b, kb) ==
    IF ka = <<>> THEN (IF kb = <<>> THEN 0 ELSE -1)
    ELSE IF kb = <<>> THEN 1
    ELSE IF NameRank(Head(ka)) < NameRank(Head(kb)) THEN -1
    ELSE IF NameRank(Head(ka)) > NameRank(Head(kb)) THEN 1
    ELSE LET c == Cmp(a[Head(ka)], b[Head(kb)])
         IN  IF c # 0 THEN c ELSE CmpMembers(a, Tail(ka), b, Tail(kb))

\* Ord of BTreeSet: lexicographic over the elements in ascending order
CmpOptions(sa, sb) ==
    IF sa = <<>> THEN (IF sb = <<>> THEN 0 ELSE -1)
    ELSE IF sb = <<>> THEN 1
    ELSE LET c == Cmp(Head(sa), Head(sb))
         IN  IF c # 0 THEN c ELSE CmpOptions(Tail(sa), Tail(sb))

\* the elements of a BTreeSet in iteration (ascending) order
SortedOptions(options) ==
    IF options = {} THEN <<>>
    ELSE LET least == CHOOSE x \in options : \A y \in options : Cmp(x, y) <= 0
         IN  <<least>> \o SortedOptions(options \ {least})

-----------------------------------------------------------------------------
(* DataType::unify                                                         *)

RECURSIVE unify(_, _)

\* UnifyVariant with the insertion of a new option left out
UnifyVariantNoGrowth(types, other) ==
    IF types = {} THEN other ELSE Variant(types)

\* arm (DataType::Variant(types), t2)
UnifyVariant(types, other) ==
    IF types = {} THEN other
    ELSE IF other \in types THEN Variant(types)
    ELSE Variant(types \cup {other})

\* UnifyObjects without the chain over b_only: the fields only in b are lost
UnifyObjectsDropBOnly(a, b) ==
    Object([key \in DOMAIN a |-> unify(a[key], IF key \in DOMAIN b THEN b[key] ELSE Null)])

\* UnifyObjects with the fields only in b taken as they are, not unified with Null
UnifyObjectsKeepBOnly(a, b) ==
    LET from_a == [key \in DOMAIN a |->
                      unify(a[key], IF key \in DOMAIN b THEN b[key] ELSE Null)]
        from_b == [key \in DOMAIN b \ DOMAIN a |-> b[key]]
    IN  Object(from_b @@ from_a)

\* arm (DataType::Object(a), DataType::Object(b))
UnifyObjects(a, b) ==
    LET shared == [key \in DOMAIN b \cap DOMAIN a |-> b[key]]
        b_only == [key \in DOMAIN b \ DOMAIN a |-> b[key]]
        from_a == [key \in DOMAIN a |->
                      unify(a[key], IF key \in DOMAIN shared THEN shared[key] ELSE Null)]
        from_b == [key \in DOMAIN b_only |-> unify(b_only[key], Null)]
    IN  \* collect() keeps the later entry of a repeated key
        Object(from_b @@ from_a)

unify(self, other) ==
    IF self = other THEN self
    ELSE IF self.tag = "Variant" THEN UnifyVariant(self.opts, other)
    ELSE IF (self = Float /\ other = IntT) \/ (self = IntT /\ other = Float) THEN Float
    ELSE IF self.tag = "Object" /\ other.tag = "Object" THEN UnifyObjects(self.fields, other.fields)
    ELSE Variant({self, other})

-----------------------------------------------------------------------------
(* Types drawn as operands of unify and as roots of declare.               *)

Names == {FieldNames[i] : i \in 1..MaxFields}

Prims == {Null, String, IntT, Float, Bool}

ObjectsOver(types) == {Object(m) : m \in UNION {[D -> types] : D \in SUBSET Names}}

VariantsOver(types) ==
    {Variant(s) : s \in {o \in SUBSET types : Cardinality(o) <= MaxOpts}}

\* types that occur as fields and options of the composite operands
InnerTypes == {Null, IntT, Float, Variant({IntT, String})}

Types ==
    Prims
      \cup VariantsOver({Null, IntT, String, Array(IntT)})
      \cup ObjectsOver(InnerTypes)
      \cup {Array(IntT), Array(Float), Array(Variant({})), Array(Object([name \in {} |-> Null]))}
      \cup {Variant({o, Null}) : o \in ObjectsOver({IntT})}
      \cup {Object([name \in {FieldNames[1]} |-> o]) : o \in ObjectsOver({Null, String})}

-----------------------------------------------------------------------------
(* Variables a specification does not use keep these values.               *)

UnifyIdle == t1 = Null /\ t2 = Null /\ r12 = Null /\ r21 = Null

ReorderIdle == v = <<>> /\ w = <<>> /\ typ_w = Null

InferIdle ==
    /\ family = "none" /\ acc = <<>> /\ count = 0
    /\ kinds = {} /\ seen = {} /\ every = {} /\ rhs = {}

DeclareIdle == root = Null /\ stack = <<>> /\ ret = <<>> /\ next_index = 0 /\ decls = <<>>

unifyVars == <<t1, t2, r12, r21>>

reorderVars == <<v, w, typ_w>>

inferVars == <<family, acc, count, kinds, seen, every, rhs>>

declareVars == <<root, stack, ret, next_index, decls>>

-----------------------------------------------------------------------------
(* Specification Spec: one call of unify on two arbitrary types, in both   *)
(* operand orders.                                                         *)

Init ==
    /\ pc = "call"
    /\ t1 \in Types
    /\ t2 \in Types
    /\ r12 = Null
    /\ r21 = Null
    /\ typ = Null
    /\ ReorderIdle
    /\ InferIdle
    /\ DeclareIdle

Unify ==
    /\ pc = "call"
    /\ r12' = unify(t1, t2)
    /\ r21' = unify(t2, t1)
    /\ pc' = "done"
    /\ UNCHANGED <<t1, t2, typ, reorderVars, inferVars, declareVars>>

Next == Unify

Spec == Init /\ [][Next]_vars

\* no Variant of the type has a Variant as a direct member
RECURSIVE NoNestedVariant(_)
NoNestedVariant(t) ==
    CASE t.tag = "Object" -> \A name \in DOMAIN t.fields : NoNestedVariant(t.fields[name])
      [] t.tag = "Array" -> NoNestedVariant(t.elem)
      [] t.tag = "Variant" -> \A o \in t.opts : o.tag # "Variant" /\ NoNestedVariant(o)
      [] OTHER -> TRUE

\* C1: unify(a, b) equals unify(b, a) for all types a and b.
C1_Commutative == pc = "done" => r12 = r21

\* C3: the empty Variant is a two-sided identity of unify.
C3_Identity == (pc = "done" /\ t1 = Variant({})) => (r12 = t2 /\ r21 = t2)

\* C4: unify of two types without nested Variants has no nested Variant.
C4_NoNesting ==
    (pc = "done" /\ NoNestedVariant(t1) /\ NoNestedVariant(t2)) => NoNestedVariant(r12)

\* C5: unify of two distinct Objects is the Object over the union of the field
\* names; a shared field unifies both sides, a one-sided field unifies with Null.
C5_ObjectUnion ==
    (pc = "done" /\ t1.tag = "Object" /\ t2.tag = "Object" /\ t1 # t2) =>
        /\ r12.tag = "Object"
        /\ DOMAIN r12.fields = DOMAIN t1.fields \cup DOMAIN t2.fields
        /\ \A name \in DOMAIN t1.fields \cap DOMAIN t2.fields :
               r12.fields[name] = unify(t1.fields[name], t2.fields[name])
        /\ \A name \in DOMAIN t1.fields \ DOMAIN t2.fields :
               r12.fields[name] = unify(t1.fields[name], Null)
        /\ \A name \in DOMAIN t2.fields \ DOMAIN t1.fields :
               r12.fields[name] = unify(t2.fields[name], Null)

C5_Witness ==
    /\ pc = "done"
    /\ t1.tag = "Object" /\ t2.tag = "Object"
    /\ DOMAIN t1.fields \cap DOMAIN t2.fields # {}
    /\ DOMAIN t2.fields \ DOMAIN t1.fields # {}
    /\ r12.tag = "Object"
    /\ DOMAIN r12.fields = DOMAIN t2.fields
    /\ \E name \in DOMAIN t2.fields \ DOMAIN t1.fields :
           r12.fields[name] = Variant({t2.fields[name], Null})

\* C8: a non-empty Variant(S) unified with a different type t gains t when t is
\* not in S and is unchanged when t is in S.
C8_VariantGrowth ==
    (pc = "done" /\ t1.tag = "Variant" /\ t1.opts # {} /\ t2 # t1) =>
        r12 = IF t2 \in t1.opts THEN t1 ELSE Variant(t1.opts \cup {t2})

C8_Witness ==
    /\ pc = "done"
    /\ t1.tag = "Variant" /\ t1.opts # {} /\ t2 # t1
    /\ t2 \notin t1.opts
    /\ r12 = Variant(t1.opts \cup {t2})
    /\ Cardinality(r12.opts) = Cardinality(t1.opts) + 1

-----------------------------------------------------------------------------
(* json::JsonValue.  A Number carries its value in tenths, so that 10 is   *)
(* 1.0 and 25 is 2.5; the text of a string and the value of a boolean are  *)
(* never read by from_json_value.                                          *)

JNull == [kind |-> "Null"]
JShort == [kind |-> "Short"]
JString == [kind |-> "String"]
JNumber(n) == [kind |-> "Number", tenths |-> n]
JBoolean == [kind |-> "Boolean"]
JObject(obj) == [kind |-> "Object", members |-> obj]
JArray(elems) == [kind |-> "Array", elems |-> elems]

\* float == float.floor()
IsWhole(n) == n % 10 = 0

\* Accumulate with the operands of unify exchanged
AccumulateFlipped(sofar, x) == IF sofar = <<>> THEN <<x>> ELSE <<unify(x, sofar[1])>>

\* one step of Iterator::reduce(Self::unify); the accumulator is an Option
Accumulate(sofar, x) == IF sofar = <<>> THEN <<x>> ELSE <<unify(sofar[1], x)>>

RECURSIVE Reduce(_, _)
Reduce(sofar, rest) ==
    IF rest = <<>> THEN sofar ELSE Reduce(Accumulate(sofar, Head(rest)), Tail(rest))

\* Option::unwrap_or
UnwrapOr(opt, default) == IF opt = <<>> THEN default ELSE opt[1]

RECURSIVE from_json_value(_)
from_json_value(j) ==
    CASE j.kind = "Null" -> Null
      [] j.kind = "Short" -> String
      [] j.kind = "String" -> String
      [] j.kind = "Number" -> IF IsWhole(j.tenths) THEN IntT ELSE Float
      [] j.kind = "Boolean" -> Bool
      [] j.kind = "Object" ->
            Object([key \in DOMAIN j.members |-> from_json_value(j.members[key])])
      [] j.kind = "Array" ->
            LET types == [i \in DOMAIN j.elems |-> from_json_value(j.elems[i])]
            IN  Array(UnwrapOr(Reduce(<<>>, types), Variant({})))

\* the right-hand operands of the unify calls made by unify(self, other),
\* the call itself included
RECURSIVE UnifyOperands(_, _)
UnifyOperands(self, other) ==
    {other} \cup
        IF self # other /\ self.tag = "Object" /\ other.tag = "Object"
        THEN LET a == self.fields
                 b == other.fields
             IN  UNION ({UnifyOperands(a[key], IF key \in DOMAIN b THEN b[key] ELSE Null) :
                            key \in DOMAIN a}
                        \cup {UnifyOperands(b[key], Null) : key \in DOMAIN b \ DOMAIN a})
        ELSE {}

\* the right-hand operands of the unify calls made by one step of the reduce
AccumulateOperands(sofar, x) == IF sofar = <<>> THEN {} ELSE UnifyOperands(sofar[1], x)

RECURSIVE ReduceOperands(_, _)
ReduceOperands(sofar, rest) ==
    IF rest = <<>> THEN {}
    ELSE AccumulateOperands(sofar, Head(rest))
            \cup ReduceOperands(Accumulate(sofar, Head(rest)), Tail(rest))

\* the right-hand operands of every unify call made by from_json_value(j)
RECURSIVE InferOperands(_)
InferOperands(j) ==
    CASE j.kind = "Object" -> UNION {InferOperands(j.members[key]) : key \in DOMAIN j.members}
      [] j.kind = "Array" ->
            LET types == [i \in DOMAIN j.elems |-> from_json_value(j.elems[i])]
            IN  UNION {InferOperands(j.elems[i]) : i \in DOMAIN j.elems}
                    \cup ReduceOperands(<<>>, types)
      [] OTHER -> {}

-----------------------------------------------------------------------------
(* JSON values drawn as inputs.                                            *)

JObjectsOver(values) == {JObject(m) : m \in UNION {[D -> values] : D \in SUBSET Names}}

SeqsUpTo(elems, n) == UNION {[1..k -> elems] : k \in 0..n}

\* objects whose fields hold scalars
JFlatObjects == JObjectsOver({JNull, JNumber(10), JString})

\* objects whose field holds an object or an array
JDeepObjects ==
    {JObject([key \in {FieldNames[1]} |-> x]) :
        x \in JObjectsOver({JNumber(25)}) \cup {JArray(<<>>), JArray(<<JNumber(10), JString>>)}}

\* elements of the arrays of mixed kinds
JMixed ==
    {JNull, JShort, JString, JNumber(10), JNumber(25), JBoolean}
        \cup JObjectsOver({JNumber(10)})
        \cup {JArray(<<>>), JArray(<<JNumber(10)>>), JArray(<<JString, JNull>>)}

\* the elements an array is made of: objects with scalar fields, objects with
\* nested objects and arrays, or values of mixed kinds
Elements(fam) ==
    CASE fam = "objects" -> JFlatObjects
      [] fam = "nested" -> JDeepObjects \cup JObjectsOver({JNull})
      [] fam = "mixed" -> JMixed

\* the arrays that hold the elements of s in another order
Reorderings(s) ==
    {[i \in DOMAIN s |-> s[p[i]]] :
        p \in {q \in [DOMAIN s -> DOMAIN s] : \A i, j \in DOMAIN s : q[i] = q[j] => i = j}}

\* the variants (Null, String, ..., Variant) a set of types is made of
TagsOf(types) == {t.tag : t \in types}

\* the field names of a JSON value
MemberNames(j) == IF j.kind = "Object" THEN DOMAIN j.members ELSE {}

-----------------------------------------------------------------------------
(* Specification InferSpec: main's call of from_json_value.  A value that  *)
(* is no array is converted in one step; an array is reduced one element   *)
(* at a time, each element converted as it is consumed.                    *)

InferInit ==
    /\ pc = "call"
    /\ family \in {"objects", "nested", "mixed"}
    /\ acc = <<>>
    /\ count = 0
    /\ kinds = {}
    /\ seen = {}
    /\ every = Names
    /\ rhs = {}
    /\ typ = Null
    /\ UnifyIdle
    /\ ReorderIdle
    /\ DeclareIdle

\* the arms of from_json_value other than JsonValue::Array
InferValue(j) ==
    /\ pc = "call"
    /\ j.kind # "Array"
    /\ typ' = from_json_value(j)
    /\ rhs' = TagsOf(InferOperands(j))
    /\ pc' = "done"
    /\ UNCHANGED <<family, acc, count, kinds, seen, every, unifyVars, reorderVars, declareVars>>

\* JsonValue::Array: map(from_json_value) and reduce(unify) consume element j
InferElement(j) ==
    /\ pc \in {"call", "reduce"}
    /\ count < MaxLen
    /\ acc' = Accumulate(acc, from_json_value(j))
    /\ rhs' = rhs \cup TagsOf(InferOperands(j) \cup AccumulateOperands(acc, from_json_value(j)))
    /\ count' = count + 1
    /\ kinds' = kinds \cup {j.kind}
    /\ seen' = seen \cup MemberNames(j)
    /\ every' = every \cap MemberNames(j)
    /\ pc' = "reduce"
    /\ UNCHANGED <<family, typ, unifyVars, reorderVars, declareVars>>

\* JsonValue::Array: the elements are exhausted
InferArray ==
    /\ pc \in {"call", "reduce"}
    /\ typ' = Array(UnwrapOr(acc, Variant({})))
    /\ pc' = "done"
    /\ UNCHANGED <<family, acc, count, kinds, seen, every, rhs, unifyVars, reorderVars,
                   declareVars>>

InferNext ==
    \/ \E j \in Elements(family) : InferValue(j)
    \/ \E j \in Elements(family) : InferElement(j)
    \/ InferArray

InferSpec == InferInit /\ [][InferNext]_vars

-----------------------------------------------------------------------------
(* Specification ReorderSpec: from_json_value on an array and on an array  *)
(* of the same elements in another order.                                  *)

ReorderInit ==
    /\ pc = "call"
    /\ v \in {JArray(s) : s \in SeqsUpTo(JMixed, MaxLen) \ {<<>>}}
    /\ w \in {JArray(s) : s \in Reorderings(v.elems)}
    /\ typ = Null
    /\ typ_w = Null
    /\ UnifyIdle
    /\ InferIdle
    /\ DeclareIdle

InferBoth ==
    /\ pc = "call"
    /\ typ' = from_json_value(v)
    /\ typ_w' = from_json_value(w)
    /\ pc' = "done"
    /\ UNCHANGED <<v, w, unifyVars, inferVars, declareVars>>

ReorderNext == InferBoth

ReorderSpec == ReorderInit /\ [][ReorderNext]_vars

\* C2: two arrays that hold the same elements in a different order get equal types.
C2_OrderIndependent == pc = "done" => typ = typ_w

\* a type admits Null: it is Null or a Variant with Null as a direct member
AdmitsNull(t) == t = Null \/ (t.tag = "Variant" /\ Null \in t.opts)

\* C9 as claimed: every array whose elements are all objects, the empty one
\* included, gets Array(Object(F)) with F as below.
C9_EveryObjectArray ==
    (pc = "done" /\ typ.tag = "Array" /\ kinds \subseteq {"Object"}) =>
        /\ typ.elem.tag = "Object"
        /\ DOMAIN typ.elem.fields = seen
        /\ \A name \in seen \ every : AdmitsNull(typ.elem.fields[name])

\* C9: a non-empty array of objects gets Array(Object(F)), F's names are the
\* union of the elements' names, and a field some element lacks has a type that
\* admits Null.
C9_MissingFieldAdmitsNull ==
    (pc = "done" /\ count > 0 /\ kinds = {"Object"}) =>
        /\ typ.tag = "Array"
        /\ typ.elem.tag = "Object"
        /\ DOMAIN typ.elem.fields = seen
        /\ \A name \in seen \ every : AdmitsNull(typ.elem.fields[name])

\* elements lack a field that other elements give two different types
C9_Witness ==
    /\ pc = "done"
    /\ count = MaxLen
    /\ kinds = {"Object"}
    /\ \E name \in seen \ every :
          /\ typ.elem.fields[name].tag = "Variant"
          /\ Cardinality(typ.elem.fields[name].opts) = 3

\* C10: a type made by from_json_value has no nested Variant, and no unify call
\* made on the way has a Variant as its right-hand operand.
C10_InferredWellFormed ==
    /\ "Variant" \notin rhs
    /\ \A i \in DOMAIN acc : NoNestedVariant(acc[i])
    /\ pc = "done" => NoNestedVariant(typ)

\* a Variant grew to three options through unify calls on operands of three kinds
C10_Witness ==
    /\ pc = "done"
    /\ count = MaxLen
    /\ typ.elem.tag = "Variant"
    /\ Cardinality(typ.elem.opts) = 3
    /\ Cardinality(rhs) >= 3

-----------------------------------------------------------------------------
(* DataType::declare and struct Decls.  A type name is kept as its parts:  *)
(* "Vec<Vec<Data3>>" is two wraps around base "Data" with index 3.  A      *)
(* declaration is kept as its keyword, its name and its lines.             *)

PrimName(text) == [wraps |-> 0, base |-> text, index |-> -1]

\* format!("Data{}", decls.next_index)
DataName(index) == [wraps |-> 0, base |-> "Data", index |-> index]

\* format!("Vec<{}>", elem_name)
VecName(elem_name) == [elem_name EXCEPT !.wraps = @ + 1]

IsPrimitive(t) == t.tag \in {"Null", "String", "Int", "Float", "Bool"}

\* a call of declare that has not run yet
Call(t) == [self |-> t, entered |-> FALSE, name |-> DataName(0), todo |-> <<>>, lines |-> <<>>]

\* the members of an Object in iteration order, with the label each is written under
MemberCalls(members) ==
    LET keys == Keys(members)
    IN  [i \in DOMAIN keys |-> [label |-> [member |-> keys[i]], type |-> members[keys[i]]]]

\* options.into_iter().enumerate()
OptionCalls(options) ==
    LET sorted == SortedOptions(options)
    IN  [i \in DOMAIN sorted |-> [label |-> [option |-> i - 1], type |-> sorted[i]]]

Top == stack[Len(stack)]

Caller == SubSeq(stack, 1, Len(stack) - 1)

\* the arms for Null, String, Int, Float and Bool
DeclarePrimitive ==
    /\ pc = "declare" /\ stack # <<>>
    /\ ~Top.entered /\ IsPrimitive(Top.self)
    /\ ret' = <<PrimName(CASE Top.self = Null -> "()"
                          [] Top.self = String -> "String"
                          [] Top.self = IntT -> "i32"
                          [] Top.self = Float -> "f64"
                          [] Top.self = Bool -> "bool")>>
    /\ stack' = Caller
    /\ UNCHANGED <<pc, root, next_index, decls, typ, unifyVars, reorderVars, inferVars>>

\* arm DataType::Object: take a name and start the struct
DeclareObject ==
    /\ pc = "declare" /\ stack # <<>>
    /\ ~Top.entered /\ Top.self.tag = "Object"
    /\ stack' = Caller \o <<[Top EXCEPT !.entered = TRUE,
                                        !.name = DataName(next_index),
                                        !.todo = MemberCalls(Top.self.fields)]>>
    /\ next_index' = next_index + 1
    /\ UNCHANGED <<pc, root, ret, decls, typ, unifyVars, reorderVars, inferVars>>

\* DeclareVariant without decls.next_index += 1
DeclareVariantSameIndex ==
    /\ pc = "declare" /\ stack # <<>>
    /\ ~Top.entered /\ Top.self.tag = "Variant"
    /\ stack' = Caller \o <<[Top EXCEPT !.entered = TRUE,
                                        !.name = DataName(next_index),
                                        !.todo = OptionCalls(Top.self.opts)]>>
    /\ UNCHANGED <<pc, root, ret, next_index, decls, typ, unifyVars, reorderVars, inferVars>>

\* arm DataType::Variant: take a name and start the enum
DeclareVariant ==
    /\ pc = "declare" /\ stack # <<>>
    /\ ~Top.entered /\ Top.self.tag = "Variant"
    /\ stack' = Caller \o <<[Top EXCEPT !.entered = TRUE,
                                        !.name = DataName(next_index),
                                        !.todo = OptionCalls(Top.self.opts)]>>
    /\ next_index' = next_index + 1
    /\ UNCHANGED <<pc, root, ret, decls, typ, unifyVars, reorderVars, inferVars>>

\* arm DataType::Array: declare the element type
DeclareArray ==
    /\ pc = "declare" /\ stack # <<>>
    /\ ~Top.entered /\ Top.self.tag = "Array"
    /\ stack' = Caller \o <<[Top EXCEPT !.entered = TRUE], Call(Top.self.elem)>>
    /\ UNCHANGED <<pc, root, ret, next_index, decls, typ, unifyVars, reorderVars, inferVars>>

\* arm DataType::Array: wrap the name the element's call returned
ReturnVec ==
    /\ pc = "declare" /\ stack # <<>>
    /\ Top.entered /\ Top.self.tag = "Array"
    /\ ret # <<>>
    /\ ret' = <<VecName(ret[1])>>
    /\ stack' = Caller
    /\ UNCHANGED <<pc, root, next_index, decls, typ, unifyVars, reorderVars, inferVars>>

\* the loops over members and options: declare the next one
DeclareMember ==
    /\ pc = "declare" /\ stack # <<>>
    /\ Top.entered /\ Top.self.tag \in {"Object", "Variant"}
    /\ ret = <<>> /\ Top.todo # <<>>
    /\ stack' = stack \o <<Call(Head(Top.todo).type)>>
    /\ UNCHANGED <<pc, root, ret, next_index, decls, typ, unifyVars, reorderVars, inferVars>>

\* the loops over members and options: write the line of the one just declared
WriteMember ==
    /\ pc = "declare" /\ stack # <<>>
    /\ Top.entered /\ Top.self.tag \in {"Object", "Variant"}
    /\ ret # <<>>
    /\ stack' = Caller \o
          <<[Top EXCEPT !.lines = Append(@, [label |-> Head(Top.todo).label,
                                             type_name |-> ret[1]]),
                        !.todo = Tail(@)]>>
    /\ ret' = <<>>
    /\ UNCHANGED <<pc, root, next_index, decls, typ, unifyVars, reorderVars, inferVars>>

\* PushDecl with the declaration put at the front of the list
PushDeclFront ==
    /\ pc = "declare" /\ stack # <<>>
    /\ Top.entered /\ Top.self.tag \in {"Object", "Variant"}
    /\ ret = <<>> /\ Top.todo = <<>>
    /\ decls' = <<[keyword |-> IF Top.self.tag = "Object" THEN "struct" ELSE "enum",
                   name |-> Top.name,
                   lines |-> Top.lines]>> \o decls
    /\ ret' = <<Top.name>>
    /\ stack' = Caller
    /\ UNCHANGED <<pc, root, next_index, typ, unifyVars, reorderVars, inferVars>>

\* decls.decls.push(s) and the return of the name, after the loop
PushDecl ==
    /\ pc = "declare" /\ stack # <<>>
    /\ Top.entered /\ Top.self.tag \in {"Object", "Variant"}
    /\ ret = <<>> /\ Top.todo = <<>>
    /\ decls' = Append(decls, [keyword |-> IF Top.self.tag = "Object" THEN "struct" ELSE "enum",
                               name |-> Top.name,
                               lines |-> Top.lines])
    /\ ret' = <<Top.name>>
    /\ stack' = Caller
    /\ UNCHANGED <<pc, root, next_index, typ, unifyVars, reorderVars, inferVars>>

\* main: the call typ.declare(&mut decls) has returned
Declared ==
    /\ pc = "declare" /\ stack = <<>>
    /\ pc' = "done"
    /\ UNCHANGED <<root, stack, ret, next_index, decls, typ, unifyVars, reorderVars, inferVars>>

\* types handed to declare
Roots == Types \cup {Array(t) : t \in Types}

\* main: Decls { next_index: 0, decls: Vec::new() } and the call of declare
DeclareInit ==
    /\ pc = "declare"
    /\ root \in Roots
    /\ stack = <<Call(root)>>
    /\ ret = <<>>
    /\ next_index = 0
    /\ decls = <<>>
    /\ typ = Null
    /\ UnifyIdle
    /\ ReorderIdle
    /\ InferIdle

DeclareNext ==
    \/ DeclarePrimitive
    \/ DeclareObject
    \/ DeclareVariant
    \/ DeclareArray
    \/ ReturnVec
    \/ DeclareMember
    \/ WriteMember
    \/ PushDecl
    \/ Declared

\* the program is one thread that runs to completion
DeclareSpec == DeclareInit /\ [][DeclareNext]_vars /\ WF_vars(DeclareNext)

\* number of Object and Variant nodes of a type
RECURSIVE Composites(_), CompositesOf(_)
CompositesOf(types) ==
    IF types = <<>> THEN 0 ELSE Composites(Head(types)) + CompositesOf(Tail(types))

Composites(t) ==
    CASE t.tag = "Object" ->
            1 + CompositesOf([i \in DOMAIN Keys(t.fields) |-> t.fields[Keys(t.fields)[i]]])
      [] t.tag = "Variant" -> 1 + CompositesOf(SortedOptions(t.opts))
      [] t.tag = "Array" -> Composites(t.elem)
      [] OTHER -> 0

\* C6: declare terminates; it leaves one declaration per Object or Variant node
\* of the tree, and no two declarations have the same name.
C6_DeclarationTotality ==
    /\ <>(pc = "done")
    /\ [](pc = "done" =>
            /\ Len(decls) = Composites(root)
            /\ \A i, j \in DOMAIN decls : decls[i].name = decls[j].name => i = j)

C6_Witness ==
    /\ pc = "done"
    /\ root.tag = "Array"
    /\ Len(decls) = 3
    /\ \E i \in DOMAIN decls : decls[i].keyword = "enum"
    /\ \E i \in DOMAIN decls : decls[i].keyword = "struct"

\* C7 as claimed: the declaration at list position i is the one named with index i.
C7_ListInNameOrder ==
    pc = "done" => \A i \in DOMAIN decls : decls[i].name = DataName(i - 1)

\* names of the calls that have taken one and not yet pushed their declaration
OpenNames ==
    {stack[i].name.index : i \in {k \in DOMAIN stack :
        stack[k].entered /\ stack[k].self.tag \in {"Object", "Variant"}}}

\* C7: names are taken in the order the composite nodes are first visited, without
\* gaps; the list holds a declaration after the declarations of the composite
\* nodes nested in it, which have later names; a composite root comes last.
C7_ListInPostOrder ==
    /\ OpenNames \cup {decls[i].name.index : i \in DOMAIN decls} = 0..(next_index - 1)
    /\ \A i \in DOMAIN decls : \A k \in DOMAIN decls[i].lines :
          LET used == decls[i].lines[k].type_name
          IN  used.base = "Data" =>
                 /\ used.index > decls[i].name.index
                 /\ \E j \in 1..(i - 1) : decls[j].name.index = used.index
    /\ (pc = "done" /\ decls # <<>>) => decls[Len(decls)].name = DataName(0)

C7_Witness ==
    /\ pc = "done"
    /\ Len(decls) = 3
    /\ decls[1].name = DataName(1)
    /\ decls[2].name = DataName(2)
    /\ decls[3].name = DataName(0)

====
